---- MODULE Spec2Model ----
(***************************************************************************)
(* A model of how-bitcoin-api-ingestion:                                   *)
(*   writers.py  DataWriter, which appends fetched records to a JSON-lines *)
(*               file whose path is fixed at construction;                 *)
(*   apis.py     MercadoBitCoinApi.get_data, an HTTP GET behind a          *)
(*               rate limiter and two retry decorators.                    *)
(* Text (file content, JSON) is a sequence of one-character strings.       *)
(***************************************************************************)
EXTENDS Integers, Sequences, FiniteSets, TLC

VARIABLES
    wall,       \* datetime.datetime.now(), in clock ticks
    dirs,       \* the directories that exist, each a sequence of segments
    files,      \* path -> content, for the files that exist
    coin,       \* DataWriter.coin of each instance, "" before __init__
    api,        \* DataWriter.api of each instance, "" before __init__
    filename,   \* DataWriter.filename of each instance, <<>> before __init__
    pending,    \* per instance: the values the running write has still to visit
    outcome,    \* per instance: "idle", "running", "returned" or "raised"
    arg,        \* per instance: the data of the current (or last) write call
    written,    \* per instance: the rows that call has passed to _write_row
    raised,     \* per instance: the exception's data when outcome is "raised"
    nwrites,    \* write calls started so far
    now,        \* the rate limiter's clock, in seconds
    last_reset, \* RateLimitDecorator.last_reset
    num_calls,  \* RateLimitDecorator.num_calls
    pc,         \* where the caller of get_data is: "idle", "limit" or "get"
    tries,      \* attempts of the rate-limit retry in the running call
    htries,     \* attempts of the HTTP retry in the running call
    response,   \* the last response requests.get returned
    result,     \* how the last get_data call ended: a body or an exception
    ncalls,     \* get_data calls started so far
    admitted,   \* when a call passed the limiter, over the last PERIOD seconds
    requested,  \* when a GET was sent, over the last PERIOD seconds
    users,      \* the fetcher classes admitted since the window's last reset
    self,       \* the fetcher instance of the current (or last) get_data call
    kwargs,     \* the keyword arguments of that call
    endpoint    \* the endpoint of the call's last GET, "" before its first

wvars == <<wall, dirs, files, coin, api, filename, pending, outcome, arg, written,
           raised, nwrites>>

avars == <<now, last_reset, num_calls, pc, tries, htries, response, result,
           ncalls, admitted, requested, users, self, kwargs,
           endpoint>>

vars == <<wvars, avars>>

----------------------------------------------------------------------------
(* Bounds *)

MaxWall == 1

MaxWrites == 2

MaxNodes == 2

\* the clock moves in steps of Res seconds, up to MaxTime
Res == 15

MaxTime == 45

\* get_data calls in a run against a server that always answers 200
MaxCalls == 30

\* get_data calls in a run against a server that may fail
MaxCallsHttp == 3

\* get_data calls in a run over every request
MaxCallsEndpoint == 1

Writers == {"w1", "w2"}

Coins == {"BTC"}

Apis == {"trades"}

----------------------------------------------------------------------------
(* Values.  Every Python value is a record [t, v]: t its type, v its payload. *)

PyInt(n) == [t |-> "int", v |-> n]

PyStr(cs) == [t |-> "str", v |-> cs]

\* A dict is its items in insertion order; keys are text.
PyDict(items) == [t |-> "dict", v |-> items]

PyList(elems) == [t |-> "list", v |-> elems]

None == [t |-> "NoneType", v |-> 0]

\* isinstance(data, dict)
IsDictOrStr(data) == data.t \in {"dict", "str"}

IsDict(data) == data.t = "dict"

\* isinstance(data, List)
IsList(data) == data.t = "list"

----------------------------------------------------------------------------
(* json.dumps with its defaults: separators ", " and ": ", no indent. *)

Digit(d) == <<"0", "1", "2", "3", "4", "5", "6", "7", "8", "9">>[d + 1]

RECURSIVE NatText(_)
NatText(n) == IF n < 10 THEN <<Digit(n)>>
              ELSE NatText(n \div 10) \o <<Digit(n % 10)>>

IntText(n) == IF n < 0 THEN <<"-">> \o NatText(-n) ELSE NatText(n)

\* py_encode_basestring_ascii, on the characters the model uses
EscapeCharRaw(c) == <<c>>

EscapeChar(c) ==
    CASE c = "\"" -> <<"\\", "\"">>
      [] c = "\\" -> <<"\\", "\\">>
      [] c = "\n" -> <<"\\", "n">>
      [] OTHER -> <<c>>

RECURSIVE EscapeText(_)
EscapeText(cs) == IF cs = <<>> THEN <<>>
                  ELSE EscapeChar(Head(cs)) \o EscapeText(Tail(cs))

Quoted(cs) == <<"\"">> \o EscapeText(cs) \o <<"\"">>

RECURSIVE dumps(_)
RECURSIVE DumpItems(_)
RECURSIVE DumpElems(_)
DumpItems(items) ==
    IF items = <<>> THEN <<>>
    ELSE Quoted(Head(items)[1]) \o <<":", " ">> \o dumps(Head(items)[2])
         \o (IF Tail(items) = <<>> THEN <<>>
             ELSE <<",", " ">> \o DumpItems(Tail(items)))

DumpElems(elems) ==
    IF elems = <<>> THEN <<>>
    ELSE dumps(Head(elems))
         \o (IF Tail(elems) = <<>> THEN <<>>
             ELSE <<",", " ">> \o DumpElems(Tail(elems)))

dumps(x) ==
    CASE x.t = "int" -> IntText(x.v)
      [] x.t = "str" -> Quoted(x.v)
      [] x.t = "dict" -> <<"{">> \o DumpItems(x.v) \o <<"}">>
      [] x.t = "list" -> <<"[">> \o DumpElems(x.v) \o <<"]">>

----------------------------------------------------------------------------
(* The file system: paths are sequences of segments. *)

\* "{api}/{coin}/{datetime}.json"
Path(a, c, datetime) == <<a, c, ToString(datetime) \o ".json">>

\* os.path.dirname
Dirname(path) == SubSeq(path, 1, Len(path) - 1)

----------------------------------------------------------------------------
(* The values handed to write. *)

\* {"a": 1}
D1 == PyDict(<< <<(<<"a">>), PyInt(1)>> >>)

\* {"a": 2, "s": "\n"}
D2 == PyDict(<< <<(<<"a">>), PyInt(2)>>, <<(<<"s">>), PyStr(<<"\n">>)>> >>)

\* "x", which write does not support
X == PyStr(<<"x">>)

Atoms == {D1, X}

\* Every value of n nodes: an atom is one node, a list one more than its elements.
RECURSIVE DataOfSize(_)
RECURSIVE ListsOfTotal(_)
DataOfSize(n) ==
    (IF n = 1 THEN Atoms ELSE {}) \cup {PyList(l) : l \in ListsOfTotal(n - 1)}

ListsOfTotal(k) ==
    IF k = 0 THEN {<<>>}
    ELSE UNION {{<<x>> \o rest : x \in DataOfSize(j), rest \in ListsOfTotal(k - j)}
                : j \in 1..k}

Larger ==
    { D2, PyInt(7),
      PyList(<<D1, D2>>),
      PyList(<<D1, X, D2>>),
      PyList(<<D1, PyList(<<D2, PyInt(7)>>), D1>>),
      PyList(<<PyList(<<D1, PyList(<<D2>>)>>), D1>>) }

Inputs == UNION {DataOfSize(n) : n \in 1..MaxNodes} \cup Larger

----------------------------------------------------------------------------
(* DataWriter *)

\* __init__: the path is computed from the clock once and stored
DataWriter_init(w, c, a) ==
    /\ filename[w] = <<>>
    /\ coin' = [coin EXCEPT ![w] = c]
    /\ api' = [api EXCEPT ![w] = a]
    /\ filename' = [filename EXCEPT ![w] = Path(a, c, wall)]
    /\ UNCHANGED <<wall, dirs, files, pending, outcome, arg, written, raised,
                   nwrites>>
    /\ UNCHANGED avars

\* the path _write_row opens: self.filename
TargetNow(w) == Path(api[w], coin[w], wall)

Target(w) == filename[w]

\* os.makedirs(d, exist_ok=True): d and every missing ancestor of it
makedirs(d) == dirs \cup {SubSeq(d, 1, n) : n \in 1..Len(d)}

\* open(path, "a") and f.write(row)
OpenTruncating(path, row) ==
    IF path \in DOMAIN files THEN [files EXCEPT ![path] = row]
    ELSE files @@ (path :> row)

OpenAppending(path, row) ==
    IF path \in DOMAIN files THEN [files EXCEPT ![path] = @ \o row]
    ELSE files @@ (path :> row)

\* _write_row(row)
write_row(w, row) ==
    /\ dirs' = makedirs(Dirname(Target(w)))
    /\ files' = OpenAppending(Target(w), row)

\* json.dumps(data) + "\n"
RowNoNewline(data) == dumps(data)

Row(data) == dumps(data) \o <<"\n">>

Reverse(s) == [i \in 1..Len(s) |-> s[Len(s) + 1 - i]]

\* The recursion of write over lists, as a work list: a list at the head is
\* replaced by its elements, until the head is a value that is not a list.
RECURSIVE ExpandReversed(_)
ExpandReversed(todo) ==
    IF todo = <<>> THEN <<>>
    ELSE IF IsList(Head(todo))
         THEN ExpandReversed(Reverse(Head(todo).v) \o Tail(todo))
         ELSE todo

ExpandOneLevel(todo) ==
    IF todo = <<>> THEN <<>>
    ELSE IF IsList(Head(todo)) THEN Head(todo).v \o Tail(todo)
    ELSE todo

RECURSIVE Expand(_)
Expand(todo) ==
    IF todo = <<>> THEN <<>>
    ELSE IF IsList(Head(todo)) THEN Expand(Head(todo).v \o Tail(todo))
    ELSE todo

\* write returns: every for loop has run out
ReturnTouching(w, rows) ==
    /\ outcome' = [outcome EXCEPT ![w] = "returned"]
    /\ pending' = [pending EXCEPT ![w] = <<>>]
    /\ written' = [written EXCEPT ![w] = rows]
    /\ raised' = [raised EXCEPT ![w] = None]
    /\ dirs' = makedirs(Dirname(Target(w)))
    /\ files' = IF Target(w) \in DOMAIN files THEN files
                ELSE files @@ (Target(w) :> <<>>)

Return(w, rows) ==
    /\ outcome' = [outcome EXCEPT ![w] = "returned"]
    /\ pending' = [pending EXCEPT ![w] = <<>>]
    /\ written' = [written EXCEPT ![w] = rows]
    /\ raised' = [raised EXCEPT ![w] = None]
    /\ UNCHANGED <<dirs, files>>

\* the dict branch: one row, then on to the next value that is not a list
WriteDict(w, p, rows) ==
    LET rest == Expand(Tail(p)) IN
    /\ write_row(w, Row(Head(p)))
    /\ outcome' = [outcome EXCEPT
                     ![w] = IF rest = <<>> THEN "returned" ELSE "running"]
    /\ pending' = [pending EXCEPT ![w] = rest]
    /\ written' = [written EXCEPT ![w] = Append(rows, Row(Head(p)))]
    /\ raised' = [raised EXCEPT ![w] = None]

\* the else branch: the exception unwinds every for loop
RaiseAndGoOn(w, p, rows) ==
    /\ outcome' = [outcome EXCEPT
                     ![w] = IF Expand(Tail(p)) = <<>> THEN "raised"
                            ELSE "running"]
    /\ raised' = [raised EXCEPT ![w] = Head(p)]
    /\ pending' = [pending EXCEPT ![w] = Expand(Tail(p))]
    /\ written' = [written EXCEPT ![w] = rows]
    /\ UNCHANGED <<dirs, files>>

Raise(w, p, rows) ==
    /\ outcome' = [outcome EXCEPT ![w] = "raised"]
    /\ raised' = [raised EXCEPT ![w] = Head(p)]
    /\ pending' = [pending EXCEPT ![w] = <<>>]
    /\ written' = [written EXCEPT ![w] = rows]
    /\ UNCHANGED <<dirs, files>>

\* write, from the values still to visit up to and including the next
\* _write_row, the raise, or the return when nothing is left to visit
Visit(w, todo, rows) ==
    LET p == Expand(todo) IN
    IF p = <<>> THEN Return(w, rows)
    ELSE IF IsDict(Head(p)) THEN WriteDict(w, p, rows)
    ELSE Raise(w, p, rows)

\* write(data) is called
Write(w, data) ==
    /\ filename[w] # <<>>
    /\ outcome[w] # "running"
    /\ nwrites < MaxWrites
    /\ nwrites' = nwrites + 1
    /\ arg' = [arg EXCEPT ![w] = data]
    /\ Visit(w, <<data>>, <<>>)
    /\ UNCHANGED <<wall, coin, api, filename>>
    /\ UNCHANGED avars

\* a write that has rows left goes on
WriteStepLocked(w) ==
    /\ outcome[w] = "running"
    /\ \A o \in Writers \ {w} :
         filename[o] = filename[w] => outcome[o] # "running"
    /\ Visit(w, pending[w], written[w])
    /\ UNCHANGED <<wall, coin, api, filename, arg, nwrites>>
    /\ UNCHANGED avars

WriteStep(w) ==
    /\ outcome[w] = "running"
    /\ Visit(w, pending[w], written[w])
    /\ UNCHANGED <<wall, coin, api, filename, arg, nwrites>>
    /\ UNCHANGED avars

\* the wall clock advances
WallTick ==
    /\ wall < MaxWall
    /\ wall' = wall + 1
    /\ UNCHANGED <<dirs, files, coin, api, filename, pending, outcome, arg,
                   written, raised, nwrites>>
    /\ UNCHANGED avars

----------------------------------------------------------------------------
(* MercadoBitCoinApi.get_data:                                             *)
(*   @on_exception(expo, RateLimitException, max_tries=10)                 *)
(*   @ratelimit.limits(calls=29, period=30)                                *)
(*   @on_exception(expo, HTTPError, max_tries=10)                          *)
(* The decorators are built once, when the class body runs, so the limiter *)
(* and its two counters are shared by every call.                          *)

CALLS == 29

PERIOD == 30

LIMIT_MAX_TRIES == 10

HTTP_MAX_TRIES == 10

RECURSIVE Pow2(_)
Pow2(n) == IF n = 0 THEN 1 ELSE 2 * Pow2(n - 1)

\* backoff.expo: the wait after the n-th failed attempt is at most 2^(n-1)
expo(n) == Pow2(n - 1)

\* backoff.full_jitter: any wait from 0 to the value, here in clock steps
full_jitter(value) == {d \in 0..value : d % Res = 0 /\ now + d <= MaxTime}

\* the timestamps of log that lie in the PERIOD seconds ending at t
Recent(log, t) == SelectSeq(log, LAMBDA x : x > t - PERIOD)

\* time.sleep(d), or time passing by d otherwise
Pass(d) ==
    /\ now' = now + d
    /\ admitted' = Recent(admitted, now + d)
    /\ requested' = Recent(requested, now + d)

\* ratelimit: the window has elapsed
Elapsed(t) == PERIOD - (t - last_reset) <= 0

\* ratelimit: the count the wrapper reads for a call through fetcher; the
\* wrapper closes over the one decorator object made when the class body of
\* MercadoBitCoinApi ran, so the count is the same for every instance
CountedPrivate(fetcher) ==
    IF users \subseteq {fetcher.class} THEN num_calls ELSE 0

Counted(fetcher) == num_calls

\* ratelimit: the call exceeds the budget
OverBudgetLate(n) == n > CALLS + 1

OverBudget(n) == n > CALLS

\* backoff: max_tries reached, the exception is raised to the caller
LimitGiveUpAtOnce(n) == n >= 1

LimitGiveUp(n) == n = LIMIT_MAX_TRIES

HttpGiveUpAtOnce(n) == n >= 1

HttpGiveUp(n) == n = HTTP_MAX_TRIES

\* Response.raise_for_status raises HTTPError
IsError(status) == 400 <= status /\ status < 600

NoResponse == [status |-> 0, body |-> None]

\* requests.get raised ConnectionError: there is no response
NoConnection == [status |-> -1, body |-> None]

\* an exception that reaches the caller of get_data
Exc(name) == [t |-> "exception", v |-> name]

\* what the server may answer: a status and a JSON body
Bodies == {D1, PyList(<<D1, D2>>)}

Responses == [status : {200, 404, 500}, body : Bodies]

Healthy == {r \in Responses : r.status = 200}


\* datetime.date and datetime.datetime; a datetime is its POSIX timestamp,
\* whole seconds (floored) and microseconds
Date(y, m, d) == [t |-> "date", v |-> <<y, m, d>>]

DateTime(sec, micro) == [t |-> "datetime", v |-> <<sec, micro>>]

\* a datetime is true, None is false
Truthy(x) == x # None

\* an int as str.format renders it
Str(n) == ToString(n)

\* MercadoBitCoinApi.__init__
Fetcher(class, c) ==
    [class |-> class, coin |-> c,
     base_endpoint |-> "https://www.mercadobitcoin.net/api",
     type |-> IF class = "DaySummaryApi" THEN "day-summary" ELSE "trades"]

\* DaySummaryApi._get_endpoint
Pad2(n) == IF n < 10 THEN "0" \o Str(n) ELSE Str(n)

DaySummaryEndpointPadded(fetcher, date) ==
    fetcher.base_endpoint \o "/" \o fetcher.coin \o "/" \o fetcher.type
      \o "/" \o Str(date.v[1]) \o "/" \o Pad2(date.v[2])
      \o "/" \o Pad2(date.v[3])

DaySummaryEndpoint(fetcher, date) ==
    fetcher.base_endpoint \o "/" \o fetcher.coin \o "/" \o fetcher.type
      \o "/" \o Str(date.v[1]) \o "/" \o Str(date.v[2]) \o "/" \o Str(date.v[3])

\* TradesApi._get_unix_epoch: int(date.timestamp()) truncates towards zero
get_unix_epoch(date) ==
    IF date.v[1] < 0 /\ date.v[2] > 0 THEN date.v[1] + 1 ELSE date.v[1]

EpochOrNone(date) ==
    IF date = None THEN "None" ELSE Str(get_unix_epoch(date))

\* TradesApi._get_endpoint
TradesEndpointAnyDate(fetcher, date_from, date_to) ==
    LET trades == fetcher.base_endpoint \o "/" \o fetcher.coin \o "/"
                    \o fetcher.type
    IN IF Truthy(date_from) /\ ~Truthy(date_to)
       THEN trades \o "/" \o Str(get_unix_epoch(date_from))
       ELSE IF Truthy(date_from) \/ Truthy(date_to)
       THEN trades \o "/" \o EpochOrNone(date_from)
              \o "/" \o EpochOrNone(date_to)
       ELSE trades

TradesEndpoint(fetcher, date_from, date_to) ==
    LET trades == fetcher.base_endpoint \o "/" \o fetcher.coin \o "/"
                    \o fetcher.type
    IN IF Truthy(date_from) /\ ~Truthy(date_to)
       THEN trades \o "/" \o Str(get_unix_epoch(date_from))
       ELSE IF Truthy(date_from) /\ Truthy(date_to)
       THEN trades \o "/" \o Str(get_unix_epoch(date_from))
              \o "/" \o Str(get_unix_epoch(date_to))
       ELSE trades

\* self._get_endpoint(**kwargs)
get_endpoint(fetcher, kw) ==
    IF fetcher.class = "DaySummaryApi" THEN DaySummaryEndpoint(fetcher, kw.date)
    ELSE TradesEndpoint(fetcher, kw.date_from, kw.date_to)

\* the requests of the runs: a fetcher instance and the call's arguments
DayRequest(c, date) ==
    [self |-> Fetcher("DaySummaryApi", c),
     kwargs |-> [date |-> date, date_from |-> None, date_to |-> None]]

TradesRequest(c, date_from, date_to) ==
    [self |-> Fetcher("TradesApi", c),
     kwargs |-> [date |-> None, date_from |-> date_from, date_to |-> date_to]]

Dates == {Date(2022, 3, 5), Date(2022, 12, 5), Date(2022, 3, 31),
          Date(1999, 12, 31)}

\* 1970-01-01 00:00:00, 1969-12-31 23:59:58.5, 00:00:00.999999 and
\* 2022-03-20 00:00:00.5
DateTimes == {DateTime(0, 0), DateTime(-2, 500000), DateTime(0, 999999),
              DateTime(1647734400, 500000)}

FetchCoins == {"BTC", "ETH"}

AllRequests ==
    {DayRequest(c, d) : c \in FetchCoins, d \in Dates}
      \cup {TradesRequest(c, f, u) : c \in FetchCoins,
                                     f \in DateTimes \cup {None},
                                     u \in DateTimes \cup {None}}

\* one request of each fetcher class
TwoRequests ==
    {DayRequest("BTC", Date(2022, 3, 5)), TradesRequest("BTC", None, None)}

OneRequest == {TradesRequest("BTC", None, None)}

NoFetcher == Fetcher("", "")

NoKwargs == [date |-> None, date_from |-> None, date_to |-> None]

\* the caller calls get_data on a fetcher instance
Call(max, requests) ==
    /\ pc = "idle"
    /\ ncalls < max
    /\ ncalls' = ncalls + 1
    /\ pc' = "limit"
    /\ tries' = 0
    /\ htries' = 0
    /\ response' = NoResponse
    /\ result' = None
    /\ \E q \in requests : self' = q.self /\ kwargs' = q.kwargs
    /\ endpoint' = ""
    /\ UNCHANGED <<now, last_reset, num_calls, admitted, requested, users>>
    /\ UNCHANGED wvars

\* One attempt of the outer retry: the limiter's wrapper runs; a rejected
\* attempt is given up at max_tries and otherwise slept on and made again.
Limit ==
    /\ pc = "limit"
    /\ tries' = tries + 1
    /\ LET reset == Elapsed(now)
           n == (IF reset THEN 0 ELSE Counted(self)) + 1
           before == IF reset THEN {} ELSE users
       IN /\ num_calls' = n
          /\ last_reset' = IF reset THEN now ELSE last_reset
          /\ IF OverBudget(n)
             THEN /\ users' = before
                  /\ IF LimitGiveUp(tries + 1)
                     THEN /\ pc' = "idle"
                          /\ result' = Exc("RateLimitException")
                          /\ UNCHANGED <<now, admitted, requested>>
                     ELSE /\ \E d \in full_jitter(expo(tries + 1)) : Pass(d)
                          /\ UNCHANGED <<pc, result>>
             ELSE /\ pc' = "get"
                  /\ admitted' = Append(admitted, now)
                  /\ users' = before \cup {self.class}
                  /\ UNCHANGED <<now, requested, result>>
    /\ UNCHANGED <<htries, response, ncalls, self, kwargs, endpoint>>
    /\ UNCHANGED wvars

\* One attempt of the inner retry: requests.get, raise_for_status, json().
\* A connection error is no HTTPError and goes to the caller.  A failed
\* attempt is given up at max_tries and otherwise slept on and made again,
\* without passing the limiter again.
Get(r) ==
    /\ pc = "get"
    /\ htries' = htries + 1
    /\ endpoint' = get_endpoint(self, kwargs)
    /\ response' = r
    /\ IF r = NoConnection
       THEN /\ pc' = "idle"
            /\ result' = Exc("ConnectionError")
            /\ requested' = Append(requested, now)
            /\ UNCHANGED <<now, admitted>>
       ELSE IF IsError(r.status)
       THEN IF HttpGiveUp(htries + 1)
            THEN /\ pc' = "idle"
                 /\ result' = Exc("HTTPError")
                 /\ requested' = Append(requested, now)
                 /\ UNCHANGED <<now, admitted>>
            ELSE /\ \E d \in full_jitter(expo(htries + 1)) :
                       /\ now' = now + d
                       /\ admitted' = Recent(admitted, now + d)
                       /\ requested' = Recent(Append(requested, now), now + d)
                 /\ UNCHANGED <<pc, result>>
       ELSE /\ pc' = "idle"
            /\ result' = r.body
            /\ requested' = Append(requested, now)
            /\ UNCHANGED <<now, admitted>>
    /\ UNCHANGED <<last_reset, num_calls, tries, ncalls, users, self, kwargs>>
    /\ UNCHANGED wvars

\* time passes while the caller is between calls or the request is in flight
Tick ==
    /\ pc \in {"idle", "get"}
    /\ now + Res <= MaxTime
    /\ Pass(Res)
    /\ UNCHANGED <<last_reset, num_calls, pc, tries, htries, response, result,
                   ncalls, users, self, kwargs, endpoint>>
    /\ UNCHANGED wvars

InitApi ==
    /\ now = 0
    /\ last_reset = 0
    /\ num_calls = 0
    /\ pc = "idle"
    /\ tries = 0
    /\ htries = 0
    /\ response = NoResponse
    /\ result = None
    /\ ncalls = 0
    /\ admitted = <<>>
    /\ requested = <<>>
    /\ users = {}
    /\ self = NoFetcher
    /\ kwargs = NoKwargs
    /\ endpoint = ""

InitWriter ==
    /\ wall = 0
    /\ dirs = {}
    /\ files = <<>>
    /\ coin = [w \in Writers |-> ""]
    /\ api = [w \in Writers |-> ""]
    /\ filename = [w \in Writers |-> <<>>]
    /\ pending = [w \in Writers |-> <<>>]
    /\ outcome = [w \in Writers |-> "idle"]
    /\ arg = [w \in Writers |-> None]
    /\ written = [w \in Writers |-> <<>>]
    /\ raised = [w \in Writers |-> None]
    /\ nwrites = 0

Init == InitWriter /\ InitApi

NextWriter ==
    \/ \E w \in Writers, c \in Coins, a \in Apis : DataWriter_init(w, c, a)
    \/ \E w \in Writers, data \in Inputs : Write(w, data)
    \/ \E w \in Writers : WriteStep(w)
    \/ WallTick

SpecWriter == Init /\ [][NextWriter]_vars

\* get_data against a server that always answers 200
NextLimiter ==
    \/ Call(MaxCalls, TwoRequests)
    \/ Limit
    \/ \E r \in Healthy : Get(r)
    \/ Tick

SpecLimiter == Init /\ [][NextLimiter]_vars

\* get_data against a server that may answer with an error
NextHttp ==
    \/ Call(MaxCallsHttp, OneRequest)
    \/ Limit
    \/ \E r \in Responses \cup {NoConnection} : Get(r)
    \/ Tick

SpecHttp == Init /\ [][NextHttp]_vars

\* get_data over every request, against a server that always answers 200
NextEndpoint ==
    \/ Call(MaxCallsEndpoint, AllRequests)
    \/ Limit
    \/ \E r \in Healthy : Get(r)
    \/ Tick

SpecEndpoint == Init /\ [][NextEndpoint]_vars

----------------------------------------------------------------------------
(* Properties of DataWriter *)

IsPrefix(s, t) == Len(s) <= Len(t) /\ SubSeq(t, 1, Len(s)) = s

Content(fs, path) == IF path \in DOMAIN fs THEN fs[path] ELSE <<>>

\* this step is a write call of w, or a later step of its running call
Called(w) == Write(w, arg'[w])

Stepped(w) == Called(w) \/ WriteStep(w)

\* the rows w's call had written before this step, and those the step adds
RowsBefore(w) == IF WriteStep(w) THEN written[w] ELSE <<>>

RowsAdded(w) == SubSeq(written'[w], Len(RowsBefore(w)) + 1, Len(written'[w]))

RECURSIVE Concat(_)
Concat(rows) == IF rows = <<>> THEN <<>> ELSE Head(rows) \o Concat(Tail(rows))

\* the step changes the file system by appending text to path, and no more
AppendsTo(path, text) ==
    /\ DOMAIN files' = DOMAIN files \cup {path}
    /\ files'[path] = Content(files, path) \o text
    /\ \A q \in DOMAIN files : q # path => files'[q] = files[q]

Newlines(text) == Cardinality({i \in 1..Len(text) : text[i] = "\n"})

\* the shapes of a value, as the properties name them
Mapping(data) == data.t = "dict"

Sequence(data) == data.t = "list"

\* a list none of whose elements is a list
FlatList(data) == Sequence(data) /\ \A i \in 1..Len(data.v) : ~Sequence(data.v[i])

\* the positions of a flat list that hold something write does not support
BadAt(data) == {i \in 1..Len(data.v) : ~Mapping(data.v[i])}

Min(S) == CHOOSE i \in S : \A j \in S : i <= j

\* C1: an instance's path is `{api}/{coin}/{timestamp}.json` with the clock
\* reading of its construction, no later step changes it, and every row of
\* every write call of the instance is appended to the file at that path.
C1_OnePathPerInstance ==
    [][\A w \in Writers :
         /\ (filename[w] = <<>> /\ filename'[w] # <<>>)
              => filename'[w] = <<api'[w], coin'[w], ToString(wall) \o ".json">>
         /\ filename[w] # <<>> => filename'[w] = filename[w]
         /\ Stepped(w) =>
              IF RowsAdded(w) = <<>> THEN files' = files
              ELSE AppendsTo(filename[w], Concat(RowsAdded(w)))]_vars

\* C1 witness: an instance built at clock 0 has made two write calls, the
\* second after the clock moved on, and both rows are in its one file.
C1_Witness ==
    \E w \in Writers :
      /\ nwrites = 2 /\ wall = 1
      /\ \A o \in Writers \ {w} : arg[o] = None
      /\ filename[w] = <<"trades", "BTC", "0.json">>
      /\ outcome[w] = "returned" /\ arg[w] = D1
      /\ DOMAIN files = {filename[w]}
      /\ files[filename[w]] = Row(D2) \o Row(D1)

\* C2: whatever step any instance takes, every file that exists still exists
\* afterwards and its old content is a prefix of its new content.
C2_AppendOnly ==
    [][\A path \in DOMAIN files :
         path \in DOMAIN files' /\ IsPrefix(files[path], files'[path])]_vars

\* C2 witness: two instances share a path and the file holds a row of the
\* one followed by a row of the other.
C2_Witness ==
    \E w, o \in Writers :
      /\ w # o /\ filename[w] = filename[o] /\ filename[w] \in DOMAIN files
      /\ written[w] = <<Row(D1)>> /\ written[o] = <<Row(D2)>>
      /\ files[filename[w]] = Row(D1) \o Row(D2)

\* C3: a write call with a single mapping returns having appended to the
\* target file exactly the mapping's JSON text and one newline, the only
\* newline of the appended text, with the parent directories in place; for
\* {"a": 1} the appended text is `{"a": 1}` and a newline.
C3_MappingIsOneLine ==
    [][\A w \in Writers :
         (Called(w) /\ Mapping(arg'[w])) =>
           LET text == SubSeq(files'[filename[w]],
                              Len(Content(files, filename[w])) + 1,
                              Len(files'[filename[w]]))
           IN /\ AppendsTo(filename[w], text)
              /\ text = dumps(arg'[w]) \o <<"\n">>
              /\ Newlines(text) = 1
              /\ arg'[w] = D1 =>
                   text = <<"{", "\"", "a", "\"", ":", " ", "1", "}", "\n">>
              /\ {<<api[w]>>, <<api[w], coin[w]>>} \subseteq dirs'
              /\ outcome'[w] = "returned"]_vars

\* C3 witness: the call write({"a": 2, "s": "\n"}) has returned and its line
\* is in the file.
C3_Witness ==
    \E w \in Writers :
      /\ arg[w] = D2 /\ outcome[w] = "returned"
      /\ written[w] = <<Row(D2)>>
      /\ filename[w] \in DOMAIN files
      /\ IsPrefix(Row(D2), files[filename[w]])

\* C4: a write call with a sequence of n mappings appends, one per step, the
\* lines of its elements in the elements' order: what it has written is
\* always the lines of a prefix of the sequence, and all n lines once it has
\* returned; it never raises.
C4_SequenceInOrder ==
    /\ [](\A w \in Writers :
            (Sequence(arg[w]) /\ \A i \in 1..Len(arg[w].v) : Mapping(arg[w].v[i]))
              => /\ Len(written[w]) <= Len(arg[w].v)
                 /\ written[w] = [i \in 1..Len(written[w]) |->
                                    dumps(arg[w].v[i]) \o <<"\n">>]
                 /\ outcome[w] # "raised"
                 /\ outcome[w] = "returned" => Len(written[w]) = Len(arg[w].v))
    /\ [][\A w \in Writers :
            Stepped(w) =>
              IF RowsAdded(w) = <<>> THEN files' = files
              ELSE /\ Len(RowsAdded(w)) = 1
                   /\ AppendsTo(filename[w], RowsAdded(w)[1])]_vars

\* C4 witness: write([{"a": 1}, {"a": 2, ...}]) has returned with both lines
\* in the file in that order.
C4_Witness ==
    \E w \in Writers :
      /\ arg[w] = PyList(<<D1, D2>>) /\ outcome[w] = "returned"
      /\ files[filename[w]] = Row(D1) \o Row(D2)

\* C5: a write call whose top-level value is neither a mapping nor a sequence
\* raises the exception carrying that value, and leaves every file and the
\* directory tree as they were.
C5_UnsupportedWritesNothing ==
    [][\A w \in Writers :
         (Called(w) /\ ~Mapping(arg'[w]) /\ ~Sequence(arg'[w])) =>
           /\ outcome'[w] = "raised"
           /\ raised'[w] = arg'[w]
           /\ files' = files
           /\ dirs' = dirs]_vars

\* C5 witness: write(7) was called on an instance that has no file yet, and
\* it raised with 7.
C5_Witness ==
    \E w \in Writers :
      /\ arg[w] = PyInt(7) /\ outcome[w] = "raised" /\ raised[w] = PyInt(7)
      /\ files = <<>> /\ dirs = {}

\* C6: a write call with a sequence of mappings and unsupported values, the
\* first unsupported one at position k, writes the lines of the elements
\* before k in order and then raises with element k; it never returns, later
\* elements are never written, and the raising step changes no file.
C6_PartialWriteThenRaise ==
    /\ [](\A w \in Writers :
            (FlatList(arg[w]) /\ BadAt(arg[w]) # {}) =>
              LET k == Min(BadAt(arg[w])) IN
              /\ outcome[w] # "returned"
              /\ Len(written[w]) < k
              /\ written[w] = [i \in 1..Len(written[w]) |-> Row(arg[w].v[i])]
              /\ outcome[w] = "raised" =>
                   /\ Len(written[w]) = k - 1
                   /\ raised[w] = arg[w].v[k]
                   /\ pending[w] = <<>>)
    /\ [][\A w \in Writers :
            (Stepped(w) /\ outcome'[w] = "raised") =>
              files' = files /\ dirs' = dirs]_vars

\* C6 witness: write([{"a": 1}, "x", {"a": 2, ...}]) raised with "x" after
\* the first line, which is still in the file; the third was not written.
C6_Witness ==
    \E w \in Writers :
      /\ arg[w] = PyList(<<D1, X, D2>>) /\ outcome[w] = "raised"
      /\ raised[w] = X
      /\ files[filename[w]] = Row(D1)

----------------------------------------------------------------------------
(* Properties of get_data *)

RateLimited == result = Exc("RateLimitException")

HttpFailed == result = Exc("HTTPError")

Returned == result.t \in {"dict", "list"}

ErrorStatus(status) == status \in 400..599

\* the attempts of the log made at or after the limiter's last reset
SinceReset(log) == SelectSeq(log, LAMBDA x : x >= last_reset)

\* C7 as claimed: the calls admitted in the 30 seconds ending now, whenever
\* now is, are at most 29.
C7_RollingWindow == Len(admitted) <= CALLS

\* C7 amended: the limiter counts in fixed windows that start at its resets:
\* at most 29 calls are admitted from one reset to the next, each less than
\* 30 seconds after the reset, so the 30 seconds ending now hold at most
\* twice 29 admitted calls.
C7_FixedWindow ==
    /\ Len(SinceReset(admitted)) <= CALLS
    /\ Len(SinceReset(admitted)) <= num_calls
    /\ \A i \in 1..Len(admitted) :
         admitted[i] >= last_reset => admitted[i] < last_reset + PERIOD
    /\ Len(admitted) <= 2 * CALLS

\* C7 witness: the limiter was reset after time 0, and the 30 seconds ending
\* now hold 30 admitted calls, some from before the reset.
C7_Witness ==
    /\ last_reset > 0
    /\ Len(admitted) = CALLS + 1
    /\ Len(SinceReset(admitted)) < Len(admitted)

\* C8: the GETs sent in the 30 seconds ending now, retries included, are at
\* most 29.
C8_RequestBudget == Len(requested) <= CALLS

\* C9: a rejected attempt before the 10th is made again, after a wait of at
\* most 2^(attempt - 1) seconds, with nothing raised to the caller; the
\* rate-limit error is the result only of a 10th rejected attempt, in a call
\* that sent no GET; an admitted attempt goes on to the GET, and no call that
\* got there ends with the rate-limit error.
C9_RateLimitRetried ==
    /\ [](/\ RateLimited => tries = 10 /\ htries = 0 /\ pc = "idle"
          /\ pc = "get" => tries \in 1..10 /\ result = None
          /\ pc = "limit" => tries \in 0..9 /\ result = None)
    /\ [][/\ (pc = "limit" /\ tries' = tries + 1 /\ num_calls' > CALLS) =>
               IF tries' < 10
               THEN /\ pc' = "limit" /\ result' = None
                    /\ now' - now \in 0..Pow2(tries' - 1)
               ELSE pc' = "idle" /\ RateLimited'
          /\ (pc = "limit" /\ tries' = tries + 1 /\ num_calls' <= CALLS) =>
               pc' = "get" /\ now' = now
          /\ pc = "get" => ~RateLimited']_vars

\* C9 witness: the 30th call of a window came back with the rate-limit error
\* after 10 attempts.
C9_Witness ==
    /\ RateLimited /\ tries = 10 /\ ncalls = CALLS + 1
    /\ num_calls = CALLS + 10

\* a call rejected at first is admitted by a later attempt, after the wait
\* carried it past the limiter's reset
C9_AdmittedOnRetry == pc = "get" /\ tries > 1

\* C10: a GET answered 4xx or 5xx before the 10th attempt is sent again,
\* after a wait of at most 2^(attempt - 1) seconds, with nothing raised to
\* the caller; the HTTP error is the result only of a 10th failed attempt;
\* a call that returns a body returns the body of its last response, which
\* has no error status.
C10_HttpErrorRetried ==
    /\ [](/\ HttpFailed =>
               htries = 10 /\ ErrorStatus(response.status) /\ pc = "idle"
          /\ Returned =>
               /\ htries \in 1..10 /\ pc = "idle"
               /\ ~ErrorStatus(response.status)
               /\ result = response.body)
    /\ [][(pc = "get" /\ htries' = htries + 1
             /\ ErrorStatus(response'.status)) =>
            IF htries' < 10
            THEN /\ pc' = "get" /\ result' = None
                 /\ now' - now \in 0..Pow2(htries' - 1)
            ELSE pc' = "idle" /\ HttpFailed']_vars

\* C10 witness: a call returned the body of its 10th attempt, the nine
\* before it having failed.
C10_Witness ==
    /\ Returned /\ htries = 10 /\ response.status = 200
    /\ result = PyList(<<D1, D2>>)

\* C11: a GET before the 10th attempt that fails with no response (a
\* connection error or a timeout) does not end the call: nothing is raised
\* to the caller and the request is made again.
C11_NetworkFailureRetried ==
    [][(pc = "get" /\ htries' = htries + 1 /\ htries' < 10
          /\ response' = NoConnection) =>
         pc' = "get" /\ result' = None]_vars

----------------------------------------------------------------------------
(* Properties of _get_endpoint *)

\* whole seconds since 1970-01-01, the fraction dropped
EpochSeconds(dt) ==
    IF dt.v[1] >= 0 \/ dt.v[2] = 0 THEN dt.v[1] ELSE dt.v[1] + 1

\* C12: the endpoint a TradesApi call requests is base/coin/trades when no
\* start is given, with or without an end; base/coin/trades/{epoch(start)}
\* when only the start is given; and
\* base/coin/trades/{epoch(start)}/{epoch(end)} when both are given.
C12_TradesEndpoint ==
    (endpoint # "" /\ self.class = "TradesApi") =>
      LET trades == "https://www.mercadobitcoin.net/api/" \o self.coin
                      \o "/trades"
          start == kwargs.date_from
          end == kwargs.date_to
      IN /\ start = None => endpoint = trades
         /\ (start # None /\ end = None) =>
              endpoint = trades \o "/" \o ToString(EpochSeconds(start))
         /\ (start # None /\ end # None) =>
              endpoint = trades \o "/" \o ToString(EpochSeconds(start))
                           \o "/" \o ToString(EpochSeconds(end))

\* C12 witness: a call with an end and no start requested the endpoint of a
\* call with neither.
C12_Witness ==
    /\ self = Fetcher("TradesApi", "BTC")
    /\ kwargs.date_from = None
    /\ kwargs.date_to = DateTime(1647734400, 500000)
    /\ endpoint = "https://www.mercadobitcoin.net/api/BTC/trades"

\* a start before 1970 with a fraction of a second is truncated towards zero
C12_StartAndEnd ==
    /\ self = Fetcher("TradesApi", "ETH")
    /\ kwargs.date_from = DateTime(-2, 500000)
    /\ kwargs.date_to = DateTime(1647734400, 500000)
    /\ endpoint = "https://www.mercadobitcoin.net/api/ETH/trades/-1/1647734400"

\* C13: the endpoint a DaySummaryApi call requests is
\* base/coin/day-summary/Y/M/D with the date's year, month and day as plain
\* integers; 2022-03-05 gives .../day-summary/2022/3/5.
C13_DaySummaryEndpoint ==
    (endpoint # "" /\ self.class = "DaySummaryApi") =>
      /\ endpoint = "https://www.mercadobitcoin.net/api/" \o self.coin
                      \o "/day-summary/" \o ToString(kwargs.date.v[1])
                      \o "/" \o ToString(kwargs.date.v[2])
                      \o "/" \o ToString(kwargs.date.v[3])
      /\ (self.coin = "BTC" /\ kwargs.date = Date(2022, 3, 5)) =>
           endpoint = "https://www.mercadobitcoin.net/api/BTC/day-summary/2022/3/5"

\* C13 witness: the call for ETH on 2022-03-05 requested
\* .../ETH/day-summary/2022/3/5.
C13_Witness ==
    /\ self = Fetcher("DaySummaryApi", "ETH")
    /\ kwargs.date = Date(2022, 3, 5)
    /\ endpoint = "https://www.mercadobitcoin.net/api/ETH/day-summary/2022/3/5"

----------------------------------------------------------------------------
(* Decoding JSON text, as json.loads does, for the round trip *)

Failed == [ok |-> FALSE]

Parsed(val, rest) == [ok |-> TRUE, val |-> val, rest |-> rest]

DigitChars == <<"0", "1", "2", "3", "4", "5", "6", "7", "8", "9">>

IsDigitChar(c) == \E d \in 1..10 : DigitChars[d] = c

DigitValue(c) == (CHOOSE d \in 1..10 : DigitChars[d] = c) - 1

RECURSIVE SkipSpace(_)
SkipSpace(cs) ==
    IF cs # <<>> /\ cs[1] \in {" ", "\n"} THEN SkipSpace(Tail(cs)) ELSE cs

\* the text after an opening quote, up to the closing one
RECURSIVE ParseString(_, _)
ParseString(cs, acc) ==
    IF cs = <<>> \/ cs[1] = "\n" THEN Failed
    ELSE IF cs[1] = "\"" THEN Parsed(PyStr(acc), Tail(cs))
    ELSE IF cs[1] = "\\"
    THEN IF Len(cs) < 2 THEN Failed
         ELSE IF cs[2] = "n"
         THEN ParseString(SubSeq(cs, 3, Len(cs)), Append(acc, "\n"))
         ELSE IF cs[2] \in {"\"", "\\"}
         THEN ParseString(SubSeq(cs, 3, Len(cs)), Append(acc, cs[2]))
         ELSE Failed
    ELSE ParseString(Tail(cs), Append(acc, cs[1]))

RECURSIVE ParseDigits(_, _)
ParseDigits(cs, n) ==
    IF cs # <<>> /\ IsDigitChar(cs[1])
    THEN ParseDigits(Tail(cs), 10 * n + DigitValue(cs[1]))
    ELSE Parsed(PyInt(n), cs)

ParseNumber(cs) ==
    IF cs # <<>> /\ cs[1] = "-"
    THEN IF Len(cs) >= 2 /\ IsDigitChar(cs[2])
         THEN LET r == ParseDigits(Tail(cs), 0)
              IN Parsed(PyInt(-r.val.v), r.rest)
         ELSE Failed
    ELSE IF cs # <<>> /\ IsDigitChar(cs[1]) THEN ParseDigits(cs, 0)
    ELSE Failed

RECURSIVE ParseValue(_)
RECURSIVE ParseItems(_, _)
RECURSIVE ParseElems(_, _)
\* the items of an object, from its first key on
ParseItems(cs, acc) ==
    IF cs = <<>> \/ cs[1] # "\"" THEN Failed
    ELSE LET k == ParseString(Tail(cs), <<>>) IN
         IF ~k.ok THEN Failed
         ELSE LET colon == SkipSpace(k.rest) IN
              IF colon = <<>> \/ colon[1] # ":" THEN Failed
              ELSE LET v == ParseValue(Tail(colon)) IN
                   IF ~v.ok THEN Failed
                   ELSE LET after == SkipSpace(v.rest)
                            items == Append(acc, <<k.val.v, v.val>>)
                        IN IF after = <<>> THEN Failed
                           ELSE IF after[1] = ","
                           THEN ParseItems(SkipSpace(Tail(after)), items)
                           ELSE IF after[1] = "}"
                           THEN Parsed(PyDict(items), Tail(after))
                           ELSE Failed

\* the elements of an array, from its first element on
ParseElems(cs, acc) ==
    LET v == ParseValue(cs) IN
    IF ~v.ok THEN Failed
    ELSE LET after == SkipSpace(v.rest)
             elems == Append(acc, v.val)
         IN IF after = <<>> THEN Failed
            ELSE IF after[1] = "," THEN ParseElems(Tail(after), elems)
            ELSE IF after[1] = "]" THEN Parsed(PyList(elems), Tail(after))
            ELSE Failed

ParseValue(cs) ==
    LET s == SkipSpace(cs) IN
    IF s = <<>> THEN Failed
    ELSE IF s[1] = "{"
    THEN LET inner == SkipSpace(Tail(s)) IN
         IF inner # <<>> /\ inner[1] = "}" THEN Parsed(PyDict(<<>>), Tail(inner))
         ELSE ParseItems(inner, <<>>)
    ELSE IF s[1] = "["
    THEN LET inner == SkipSpace(Tail(s)) IN
         IF inner # <<>> /\ inner[1] = "]" THEN Parsed(PyList(<<>>), Tail(inner))
         ELSE ParseElems(inner, <<>>)
    ELSE IF s[1] = "\"" THEN ParseString(Tail(s), <<>>)
    ELSE ParseNumber(s)

\* json.loads(text): the value, or the error raised
loads(text) ==
    LET r == ParseValue(text) IN
    IF r.ok /\ SkipSpace(r.rest) = <<>> THEN r.val ELSE Exc("JSONDecodeError")

\* the values of data that are not lists, depth first and left to right
RECURSIVE Leaves(_)
RECURSIVE LeavesOfAll(_)
Leaves(data) == IF data.t = "list" THEN LeavesOfAll(data.v) ELSE <<data>>

LeavesOfAll(elems) ==
    IF elems = <<>> THEN <<>>
    ELSE Leaves(Head(elems)) \o LeavesOfAll(Tail(elems))

\* two mappings with the same keys and the same value at each key
SameItems(a, b) ==
    /\ a.t = "dict" /\ b.t = "dict"
    /\ Len(a.v) = Len(b.v)
    /\ {a.v[i] : i \in 1..Len(a.v)} = {b.v[i] : i \in 1..Len(b.v)}

\* C14: the row a write call has just passed to _write_row is, decoded, the
\* mapping it was made from: the mapping at the row's place among the values
\* of the call's data that are not lists.
C14_RoundTrip ==
    \A w \in Writers :
      written[w] # <<>> =>
        LET n == Len(written[w])
            leaves == Leaves(arg[w])
        IN /\ n <= Len(leaves)
           /\ SameItems(loads(written[w][n]), leaves[n])

\* C14 witness: the row of {"a": 2, "s": "\n"}, written as the second
\* element of a sequence, decodes to that mapping.
C14_Witness ==
    \E w \in Writers :
      /\ arg[w] = PyList(<<D1, D2>>)
      /\ Len(written[w]) = 2
      /\ loads(written[w][2]) = D2

----------------------------------------------------------------------------
(* The limiter is shared by the fetcher instances *)

\* C15: a limiter check of a call through one fetcher instance, made in a
\* window in which 29 calls were admitted, all of them through an instance of
\* the other class, rejects the call: the call is not admitted, and it is
\* either made again later or ended with the rate-limit error.
C15_SharedBudget ==
    [][(/\ pc = "limit" /\ tries' = tries + 1
        /\ ~Elapsed(now)
        /\ Len(SinceReset(admitted)) = CALLS
        /\ \E c \in users : users = {c} /\ c # self.class) =>
         /\ pc' # "get"
         /\ Len(admitted') <= Len(admitted)
         /\ users' = users
         /\ pc' = "limit" \/ result' = Exc("RateLimitException")]_vars

\* C15 witness: a call through a TradesApi instance has been rejected and
\* waits for its next attempt, in a window whose 29 admitted calls all went
\* through a DaySummaryApi instance.
C15_Witness ==
    /\ pc = "limit" /\ tries >= 1
    /\ self.class = "TradesApi"
    /\ users = {"DaySummaryApi"}
    /\ Len(SinceReset(admitted)) = CALLS
    /\ ~Elapsed(now)

----------------------------------------------------------------------------
(* How a get_data call ends *)

\* a call has been made and has ended
Ended == pc = "idle" /\ ncalls > 0

\* C16 as claimed: a call makes at most 10 limiter checks and at most 10
\* GETs, and a call that has ended has returned the decoded JSON, raised the
\* HTTP error or raised the rate-limit error.
C16_ThreeOutcomes ==
    /\ tries <= LIMIT_MAX_TRIES
    /\ htries <= HTTP_MAX_TRIES
    /\ Ended => Returned \/ HttpFailed \/ RateLimited

\* The part of C16 that holds: the attempts are bounded, a call that reached
\* the GET never goes back to the limiter (so it is admitted at most once and
\* an HTTP error is not retried by the outer retry), and a call ends in one
\* of four ways, the fourth being the connection error of C11.
C16_BoundedAttempts ==
    /\ tries <= LIMIT_MAX_TRIES
    /\ htries <= HTTP_MAX_TRIES
    /\ pc = "limit" => htries = 0
    /\ Ended => \/ Returned \/ HttpFailed \/ RateLimited
                \/ result = Exc("ConnectionError")
    /\ HttpFailed => htries = HTTP_MAX_TRIES /\ tries <= LIMIT_MAX_TRIES
    /\ RateLimited => tries = LIMIT_MAX_TRIES /\ htries = 0

\* a call at the GET stays there or ends
C16_AdmittedOnce == [][pc = "get" => pc' \in {"get", "idle"}]_vars

----------------------------------------------------------------------------
(* Nested sequences *)

\* a sequence with a sequence among its elements
Nested(data) == Sequence(data) /\ \E i \in 1..Len(data.v) : Sequence(data.v[i])

\* the first place of leaves that holds no mapping, or one past the end
FirstBad(leaves) ==
    Min({i \in 1..Len(leaves) : ~Mapping(leaves[i])} \cup {Len(leaves) + 1})

\* C17: a write call with a nested sequence writes the lines of the mappings
\* found depth first and left to right, in that order; it raises only at a
\* value that is neither mapping nor sequence, never for the nesting, and
\* returns with one line per mapping when there is no such value; each step
\* appends its one line to the target file and nothing else.
C17_NestedFlattened ==
    /\ [](\A w \in Writers :
            Nested(arg[w]) =>
              LET leaves == Leaves(arg[w])
                  k == FirstBad(leaves)
              IN /\ Len(written[w]) < k
                 /\ written[w] = [i \in 1..Len(written[w]) |->
                                    dumps(leaves[i]) \o <<"\n">>]
                 /\ outcome[w] = "raised" =>
                      /\ k <= Len(leaves)
                      /\ raised[w] = leaves[k]
                      /\ Len(written[w]) = k - 1
                 /\ outcome[w] = "returned" =>
                      /\ k = Len(leaves) + 1
                      /\ Len(written[w]) = Len(leaves))
    /\ [][\A w \in Writers :
            (Stepped(w) /\ Nested(arg'[w])) =>
              IF RowsAdded(w) = <<>> THEN files' = files /\ dirs' = dirs
              ELSE AppendsTo(filename[w], Concat(RowsAdded(w)))]_vars

\* C17 witness: write([[{"a": 1}, [{"a": 2, ...}]], {"a": 1}]) has returned
\* with the three lines written in that order.
C17_Witness ==
    \E w \in Writers :
      /\ arg[w] = PyList(<<PyList(<<D1, PyList(<<D2>>)>>), D1>>)
      /\ outcome[w] = "returned"
      /\ written[w] = <<dumps(D1) \o <<"\n">>, dumps(D2) \o <<"\n">>,
                        dumps(D1) \o <<"\n">> >>
      /\ IsPrefix(Concat(written[w]), files[filename[w]])

----------------------------------------------------------------------------
(* Two writers on one path *)

\* the lines of text, each with its newline
RECURSIVE LinesFrom(_, _)
LinesFrom(text, line) ==
    IF text = <<>> THEN (IF line = <<>> THEN <<>> ELSE <<line>>)
    ELSE IF Head(text) = "\n"
    THEN <<Append(line, "\n")>> \o LinesFrom(Tail(text), <<>>)
    ELSE LinesFrom(Tail(text), Append(line, Head(text)))

Lines(text) == LinesFrom(text, <<>>)

\* rows occur in lines in their order, other lines possibly between them
RECURSIVE OccursInOrder(_, _)
OccursInOrder(rows, lines) ==
    IF rows = <<>> THEN TRUE
    ELSE IF lines = <<>> THEN FALSE
    ELSE IF Head(rows) = Head(lines)
    THEN OccursInOrder(Tail(rows), Tail(lines))
    ELSE OccursInOrder(rows, Tail(lines))

\* C18: nothing orders the steps of two write calls: while a call of one
\* instance has rows left, a running call of another instance on the same
\* path can take its next step; and the rows a call has written are in the
\* file in the call's order, the file of two instances that made one call
\* each being a merge of the two calls' rows.
C18_NotAtomic ==
    \A w \in Writers :
      /\ filename[w] # <<>> =>
           OccursInOrder(written[w], Lines(Content(files, filename[w])))
      /\ \A o \in Writers \ {w} :
           /\ (filename[o] = filename[w] /\ outcome[w] = "running"
                 /\ outcome[o] = "running") => ENABLED WriteStep(o)
           /\ (filename[o] = filename[w] /\ filename[w] # <<>> /\ nwrites = 2
                 /\ arg[w] # None /\ arg[o] # None) =>
                Len(Lines(Content(files, filename[w])))
                  = Len(written[w]) + Len(written[o])

\* C18 witness: two instances on one path each wrote [{"a": 1}, {"a": 2,
\* ...}] and returned, and the file holds the first row of the one, the
\* first row of the other, and then the two second rows.
C18_Witness ==
    \E w, o \in Writers :
      /\ w # o /\ filename[w] = filename[o]
      /\ arg[w] = PyList(<<D1, D2>>) /\ arg[o] = PyList(<<D1, D2>>)
      /\ outcome[w] = "returned" /\ outcome[o] = "returned"
      /\ Lines(files[filename[w]])
           = <<dumps(D1) \o <<"\n">>, dumps(D1) \o <<"\n">>,
               dumps(D2) \o <<"\n">>, dumps(D2) \o <<"\n">> >>

----------------------------------------------------------------------------
(* Sequences that hold no value *)

\* C19: a write call with an empty sequence, or with a sequence holding only
\* empty sequences, returns at once with no row written and every file and
\* the directory tree as they were; and a step changes the files or the
\* directories only if it is a step of a write call that writes a row.
C19_EmptyHasNoEffect ==
    [][/\ \A w \in Writers :
            (Called(w) /\ Sequence(arg'[w]) /\ Leaves(arg'[w]) = <<>>) =>
              /\ outcome'[w] = "returned"
              /\ written'[w] = <<>>
              /\ files' = files
              /\ dirs' = dirs
       /\ (files' # files \/ dirs' # dirs) =>
            \E w \in Writers : Stepped(w) /\ RowsAdded(w) # <<>>]_vars

\* C19 witness: write([[]]) has returned on an instance, and there is still
\* no file and no directory.
C19_Witness ==
    \E w \in Writers :
      /\ arg[w] = PyList(<<PyList(<<>>)>>) /\ outcome[w] = "returned"
      /\ written[w] = <<>>
      /\ files = <<>> /\ dirs = {}

====
